---------------------------- MODULE Spec2Model ----------------------------
(***************************************************************************)
(* Model of the chat gateway revisions of backendnano.ai: one HTTP request *)
(* against one of the revisions' handlers, the upstream provider it calls  *)
(* and the client it answers.                                              *)
(*                                                                         *)
(*   idx_stream  src/index.js          POST /api/chat-stream               *)
(*   idx_chat    src/index.js          POST /api/chat                      *)
(*   p1_stream   src/unnamed/part_001  POST /api/chat-stream               *)
(*   p1_chat     src/unnamed/part_001  POST /api/chat                      *)
(*   p2_chat     src/unnamed/part_002  POST /api/chat (file on disk)       *)
(*   p3_chat     src/unnamed/part_003  POST /api/chat                      *)
(*   p4_chat     src/unnamed/part_004  POST /api/chat (pass-through relay) *)
(*   p5_chat     src/unnamed/part_005  POST /api/chat (pipe relay)         *)
(*                                                                         *)
(* An action is one run of the handler (or of one of its callbacks) from   *)
(* one suspension point (await, event) to the next.                        *)
(***************************************************************************)
EXTENDS Naturals, Sequences, FiniteSets, TLC

VARIABLES
    variant,            \* which revision's handler serves the request
    prompt,             \* req.body.prompt
    model,              \* req.body.model
    hasFile,            \* req.file is set
    file,               \* req.file
    tempFile,           \* the upload's temporary file on disk
    fileContent,        \* the text extracted from the file
    fullPrompt,         \* fullPrompt / finalPrompt
    sent,               \* the request issued to the provider
    keySet,             \* the provider's credential variable is set
    answer,             \* the provider's HTTP answer to that request
    reply,              \* the success body sent to the client
    doneSeen,           \* a read of the relay held a [DONE] line
    cors,               \* the cross-origin check of a request
    reqs,               \* two requests relayed side by side
    pc,                 \* the handler's position
    outcome,            \* how the handler left its last phase
    res,                \* the client response object
    body,               \* the upstream response body, as text units
    pos,                \* number of units of body already read
    upstream,           \* state of the upstream body stream
    clientClosed,       \* the client connection has closed
    clientDisconnected, \* part_004's flag of that name
    readsAfterClose,    \* upstream chunks consumed after the client closed
    extractRuns,        \* calls of extractTextFromFile / readFileContent
    upstreamCalls       \* fetch calls issued to a provider

vars == <<variant, prompt, model, hasFile, file, tempFile, fileContent,
          fullPrompt, sent, keySet, answer, reply, doneSeen, cors, reqs, pc,
          outcome, res, body, pos, upstream, clientClosed, clientDisconnected,
          readsAfterClose, extractRuns, upstreamCalls>>

---------------------------------------------------------------------------
(* Bounds of the model. *)

\* Longest upstream body, in lines, of the relay specification.
MaxLines == 3

\* Longest upstream body, in lines, of the whole-request specification.
MaxHandlerLines == 1

\* Reads after the client closed are counted up to this number.
MaxReadsCounted == 2

\* Most entries of an uploaded archive.
MaxEntries == 2

\* Most comma-separated items of ALLOWED_ORIGINS.
MaxOrigins == 2

\* Longest upstream body, in lines, of the relay under fairness.
MaxFairLines == 2

---------------------------------------------------------------------------
(***************************************************************************)
(* Upstream text.  A body is a sequence of units; a unit stands for a run  *)
(* of characters that a read boundary may fall before or after:            *)
(*   pfx    the six characters "data: "                                    *)
(*   head   the first part of a JSON delta payload with content c          *)
(*   tail   the rest of that payload; head.tail is the whole JSON text     *)
(*   dhead  "[DO"   dtail  "NE]"                                           *)
(*   bad    a payload JSON.parse rejects, or one without choices[0]        *)
(*   nl     "\n"                                                           *)
(* The content "" is a delta whose content is empty or absent.             *)
(***************************************************************************)
Contents == {"A", "B"}

Unit(u, c) == [u |-> u, c |-> c]

Pfx == Unit("pfx", "")

Nl == Unit("nl", "")

DeltaLine(c) == <<Pfx, Unit("head", c), Unit("tail", c), Nl>>

DoneLine == <<Pfx, Unit("dhead", ""), Unit("dtail", ""), Nl>>

BadLine == <<Pfx, Unit("bad", ""), Nl>>

LineTexts == {DeltaLine(c) : c \in Contents \cup {""}} \cup {DoneLine, BadLine}

RECURSIVE Flatten(_)
Flatten(ss) == IF ss = <<>> THEN <<>> ELSE Head(ss) \o Flatten(Tail(ss))

SeqsUpTo(S, n) == UNION {[1..k -> S] : k \in 0..n}

\* The upstream bodies of at most n lines.
Bodies(n) == {Flatten(ls) : ls \in SeqsUpTo(LineTexts, n)}

---------------------------------------------------------------------------
(* The response object (express / node http.ServerResponse). *)

Evt(t, c, u) == [t |-> t, c |-> c, u |-> u]

ContentEvt(c) == Evt("content", c, <<>>)     \* data: {"content": c}\n\n

DoneEvt == Evt("done", "", <<>>)             \* data: [DONE]\n\n

RawErrorEvt == Evt("rawerr", "", <<>>)       \* data: [ERROR] <message>\n\n

JsonErrorEvt(tag) == Evt("jsonerr", tag, <<>>) \* data: {"content":"[tag] .."}\n\n

RawEvt(chunk) == Evt("raw", "", chunk)       \* upstream bytes, unchanged

NewRes ==
    [status |-> 200, ctype |-> "none", headersSent |-> FALSE, out |-> <<>>,
     ended |-> FALSE, endCalls |-> 0, jsonCalls |-> 0, jsonAfterStream |-> FALSE,
     lateWrites |-> 0, lateStatus |-> FALSE]

\* res.setHeader('Content-Type', 'text/event-stream')
ResSetEventStream(r) == [r EXCEPT !.ctype = "event-stream"]

\* res.flushHeaders()
ResFlushHeaders(r) == [r EXCEPT !.headersSent = TRUE]

\* res.status(code): sets statusCode; after the headers went out it changes
\* nothing on the wire.
ResStatus(r, code) ==
    IF r.headersSent THEN [r EXCEPT !.lateStatus = TRUE]
    ELSE [r EXCEPT !.status = code]

\* res.write(event): the first write sends the headers; a write after end()
\* adds nothing to the body.
ResWrite(r, e) ==
    IF r.ended THEN [r EXCEPT !.lateWrites = IF @ < 2 THEN @ + 1 ELSE @]
    ELSE [r EXCEPT !.out = Append(@, e), !.headersSent = TRUE]

\* res.end()
ResEnd(r) ==
    [r EXCEPT !.ended = TRUE, !.headersSent = TRUE,
              !.endCalls = IF @ < 3 THEN @ + 1 ELSE @]

\* res.status(code).json(obj): sends the one JSON body and ends the response.
ResJson(r, code) ==
    IF r.headersSent
    THEN [r EXCEPT !.jsonAfterStream = TRUE,
                   !.jsonCalls = IF @ < 2 THEN @ + 1 ELSE @]
    ELSE [ResStatus(r, code) EXCEPT
              !.headersSent = TRUE, !.ended = TRUE,
              !.endCalls = r.endCalls + 1,
              !.jsonCalls = IF @ < 2 THEN @ + 1 ELSE @]

---------------------------------------------------------------------------
(* Line handling of the re-framed relays. *)

RECURSIVE SplitOnNl(_, _)
\* chunk.split('\n'): the pieces between newlines, `cur` being the piece
\* under construction.
SplitOnNl(chunk, cur) ==
    IF chunk = <<>> THEN <<cur>>
    ELSE IF Head(chunk).u = "nl"
         THEN <<cur>> \o SplitOnNl(Tail(chunk), <<>>)
         ELSE SplitOnNl(Tail(chunk), Append(cur, Head(chunk)))

\* line.trim() !== ''
NonBlank(line) == line # <<>>

\* line.trim().startsWith('data:')
StartsWithData(line) == line # <<>> /\ line[1].u = "pfx"

\* chunk.split('\n').filter(line => line.trim() !== '')
LinesOfChunk(chunk) == SelectSeq(SplitOnNl(chunk, <<>>), NonBlank)

\* chunk.split('\n').filter(line => line.trim().startsWith('data:'))
DataLinesOfChunk(chunk) == SelectSeq(SplitOnNl(chunk, <<>>), StartsWithData)

\* line.replace(/^data: /, '')
StripDataPrefix(line) ==
    IF line # <<>> /\ line[1].u = "pfx" THEN Tail(line) ELSE line

\* message === '[DONE]'
IsDoneMessage(message) ==
    message = <<Unit("dhead", ""), Unit("dtail", "")>>

\* JSON.parse(message) returns and parsed.choices[0] exists.
JsonParses(message) ==
    /\ Len(message) = 2
    /\ message[1].u = "head"
    /\ message[2].u = "tail"
    /\ message[1].c = message[2].c

\* parsed.choices[0]?.delta?.content || ''
DeltaContent(message) == message[1].c

\* (A per-line step whose catch would end the response instead.)
ForwardDeltaFatal(r, message) ==
    IF JsonParses(message)
    THEN IF DeltaContent(message) # ""
         THEN ResWrite(r, ContentEvt(DeltaContent(message))) ELSE r
    ELSE ResEnd(r)

\* The try block of the per-line loop: a parsed, non-empty delta is written;
\* anything else (the catch, an empty delta) leaves the response as it is.
ForwardDelta(r, message) ==
    IF JsonParses(message) /\ DeltaContent(message) # ""
    THEN ResWrite(r, ContentEvt(DeltaContent(message)))
    ELSE r

\* if (message === '[DONE]') { res.write('data: [DONE]\n\n'); res.end(); return; }
OnDoneSentinel(r) == ResEnd(ResWrite(r, DoneEvt))

RECURSIVE ProcessLines(_, _)
\* index.js processStreamResponse, the for loop over one chunk's lines.
ProcessLines(lines, r) ==
    IF lines = <<>> THEN [res |-> r, returned |-> FALSE]
    ELSE LET message == StripDataPrefix(Head(lines)) IN
         IF IsDoneMessage(message)
         THEN [res |-> OnDoneSentinel(r), returned |-> TRUE]
         ELSE ProcessLines(Tail(lines), ForwardDelta(r, message))

RECURSIVE ProcessLinesP1(_, _)
\* part_001 relay loop, the for loop over one chunk's lines: [DONE] breaks
\* out of the for loop only.
ProcessLinesP1(lines, r) ==
    IF lines = <<>> THEN r
    ELSE LET message == StripDataPrefix(Head(lines)) IN
         IF IsDoneMessage(message) THEN r
         ELSE ProcessLinesP1(Tail(lines), ForwardDelta(r, message))

\* The for loop over a chunk's lines comes upon a line whose message is
\* '[DONE]'.
SeesDone(v, chunk) ==
    LET lines == IF v = "idx_stream" THEN LinesOfChunk(chunk)
                 ELSE DataLinesOfChunk(chunk)
    IN  \E i \in 1..Len(lines) : IsDoneMessage(StripDataPrefix(lines[i]))

---------------------------------------------------------------------------
(* Request inputs. *)

Variants ==
    {"idx_stream", "idx_chat", "p0_chat", "p1_stream", "p1_chat", "p2_chat",
     "p3_chat", "p4_chat", "p5_chat"}

\* The re-framed relays: upstream SSE lines are parsed and re-emitted.
ReframeVariants == {"idx_stream", "p1_stream"}

\* A prompt is absent (undefined) or a string, here a sequence of characters.
NoPrompt == [present |-> FALSE, text |-> <<>>]

PromptOf(text) == [present |-> TRUE, text |-> text]

PromptInputs ==
    {NoPrompt, PromptOf(<<>>), PromptOf(<<"a", " ">>),
     PromptOf(<<"a", "b", "c">>)}

\* A selector is absent or a string, here its '/'-separated segments.
NoModel == [present |-> FALSE, segs |-> <<>>]

ModelOf(segs) == [present |-> TRUE, segs |-> segs]

ModelInputs ==
    {NoModel,
     ModelOf(<<"openai", "gpt-4o">>),
     ModelOf(<<"openrouter", "deepseek", "deepseek-r1">>),
     ModelOf(<<"unknown", "thing">>)}

\* The selectors put to the non-streaming handlers.
ChatModelInputs ==
    ModelInputs \cup
    {ModelOf(<<"openai", "dalle-3">>),
     ModelOf(<<"openrouter", "deepseek", "deepseek-chat">>),
     ModelOf(<<"google", "gemini-1.5-flash">>),
     ModelOf(<<"deepseek-ai", "deepseek-coder">>),
     ModelOf(<<"deepseek-ai", "deepseek-r1">>),
     ModelOf(<<"together-ai", "deepseek-r1">>),
     ModelOf(<<"together-ai", "deepseek-v2-chat">>)}

\* !prompt
Falsy(p) == ~p.present \/ p.text = <<>>

RECURSIVE TrimLeft(_)
TrimLeft(t) == IF t # <<>> /\ Head(t) = " " THEN TrimLeft(Tail(t)) ELSE t

RECURSIVE TrimRight(_)
TrimRight(t) ==
    IF t # <<>> /\ t[Len(t)] = " " THEN TrimRight(SubSeq(t, 1, Len(t) - 1))
    ELSE t

\* prompt.trim()
Trim(t) == TrimRight(TrimLeft(t))

\* The shortest prompt part_004 accepts.
MinPromptLength == 3

\* (A handler that lets every prompt through.)
PromptRejectedNever(v, p) == FALSE

\* The handlers' validation of the prompt: TRUE when the request is refused.
PromptRejected(v, p) ==
    IF v = "p4_chat"
    THEN Falsy(p) \/ Len(Trim(p.text)) < MinPromptLength
    ELSE Falsy(p)

\* model.startsWith(prefix + '/')
StartsWithSeg(m, seg) == Len(m.segs) >= 2 /\ m.segs[1] = seg

\* index.js /api/chat-stream: the cases of switch (model) that stream.
IdxStreamSupported(m) ==
    /\ m.present
    /\ m.segs \in {<<"openai", "gpt-4o">>, <<"together-ai", "deepseek-r1">>,
                   <<"openrouter", "deepseek", "deepseek-r1">>}

\* part_001 /api/chat-stream: the if/else-if chain over model.startsWith.
P1StreamSupported(m) ==
    \/ StartsWithSeg(m, "openai")
    \/ StartsWithSeg(m, "together-ai")
    \/ StartsWithSeg(m, "openrouter")

---------------------------------------------------------------------------
(***************************************************************************)
(* Uploaded files and their text.  A string is a sequence of tokens; a     *)
(* token stands for a literal of the source or for a value of the request  *)
(* (a MIME type, a file name, the text of a file).                         *)
(***************************************************************************)
PdfType == "application/pdf"

DocxType ==
    "application/vnd.openxmlformats-officedocument.wordprocessingml.document"

ZipType == "application/zip"

\* The declared MIME types considered: one per branch of the extractors.
MimeTypes ==
    {PdfType, DocxType, ZipType, "text/plain", "application/json",
     "image/png", "application/octet-stream"}

\* req.file is undefined.
NoFile ==
    [present |-> FALSE, mimetype |-> "", originalname |-> "", text |-> <<>>,
     parses |-> TRUE, entries |-> <<>>]

\* req.file: `text` is what the file's parser or decoder yields, `parses`
\* tells whether it returns at all, `entries` are the entries of an archive.
FileOf(mt, name, text, parses, entries) ==
    [present |-> TRUE, mimetype |-> mt, originalname |-> name, text |-> text,
     parses |-> parses, entries |-> entries]

\* mimetype.startsWith('text/') || mimetype === 'application/json' || ...
IsTextType(mt) == mt \in {"text/plain", "application/json"}

\* mimetype.startsWith('image/')
IsImageType(mt) == mt \in {"image/png"}

\* s.includes(sub)
Contains(s, sub) ==
    \E i \in 0..(Len(s) - Len(sub)) : SubSeq(s, i + 1, i + Len(sub)) = sub

\* An entry of an archive: a directory, a member that decodes to text, or a
\* member whose decoding fails.
ZipEntry(name, kind) == [name |-> name, kind |-> kind]

\* The names that are canonical array indices, with their numeric value.
ArrayIndexOf(name) ==
    CASE name = "2" -> 2
      [] name = "10" -> 10
      [] OTHER -> 0

IsArrayIndex(name) == ArrayIndexOf(name) > 0

RECURSIVE InsertByIndex(_, _)
InsertByIndex(e, sorted) ==
    IF sorted = <<>> THEN <<e>>
    ELSE IF ArrayIndexOf(e.name) < ArrayIndexOf(Head(sorted).name)
         THEN <<e>> \o sorted
         ELSE <<Head(sorted)>> \o InsertByIndex(e, Tail(sorted))

RECURSIVE SortByIndex(_)
SortByIndex(es) ==
    IF es = <<>> THEN <<>> ELSE InsertByIndex(Head(es), SortByIndex(Tail(es)))

\* for (const filename in zip.files): the own keys of an object are visited
\* array-index keys first, in ascending numeric order, then the other keys
\* in the order they were added (the archive's order).
ForIn(es) ==
    SortByIndex(SelectSeq(es, LAMBDA e : IsArrayIndex(e.name)))
        \o SelectSeq(es, LAMBDA e : ~IsArrayIndex(e.name))

\* One pass of the loop body over an entry.
ZipBlock(e) ==
    IF e.kind = "dir" THEN <<>>
    ELSE IF e.kind = "text"
    THEN <<"--- File: ", e.name, " ---\n", "content of", e.name, "\n\n">>
    ELSE <<"--- File: ", e.name, " (binary file, content not shown) ---\n\n">>

RECURSIVE ZipBlocks(_)
ZipBlocks(es) ==
    IF es = <<>> THEN <<>> ELSE ZipBlock(Head(es)) \o ZipBlocks(Tail(es))

\* let content = `ZIP file content '${file.originalname}':\n\n`
ZipHeader(f) == <<"ZIP file content '", f.originalname, "':\n\n">>

\* The catch of extractTextFromFile.
ProcessingErrorText(f) == <<"[File processing error: ", f.originalname, "]">>

\* index.js extractTextFromFile (the same function in part_000, part_001 and,
\* with translated literals, part_003).
extractTextFromFile(f) ==
    IF ~f.present THEN <<>>
    ELSE IF f.mimetype \in {PdfType, DocxType}
    THEN IF f.parses THEN f.text ELSE ProcessingErrorText(f)
    ELSE IF f.mimetype = ZipType
    THEN IF f.parses THEN ZipHeader(f) \o ZipBlocks(ForIn(f.entries))
         ELSE ProcessingErrorText(f)
    ELSE IF IsTextType(f.mimetype) THEN f.text
    ELSE IF IsImageType(f.mimetype)
    THEN <<"[Image file: ", f.originalname, "]">>
    ELSE <<"[Unsupported file type: ", f.mimetype, ". File name: ",
           f.originalname, "]">>

\* What an extractor comes to: a string, or an exception.
Returned(text) == [threw |-> FALSE, text |-> text]

Threw == [threw |-> TRUE, text |-> <<>>]

\* part_002 readFileContent: no try/catch around pdf() and readFileSync.
ReadFileContentP2(f) ==
    IF f.mimetype = PdfType \/ IsTextType(f.mimetype)
    THEN IF f.parses THEN Returned(f.text) ELSE Threw
    ELSE Returned(<<"Unsupported file type. Could not read content.">>)

\* part_004 readFileContent.
ReadFileContentP4(f) ==
    IF f.parses THEN Returned(f.text)
    ELSE Returned(<<"[System Error: Could not read file - ", "message", "]">>)

\* part_005 extractPDFText / readFileContent.
ReadFileContentP5(f) ==
    IF f.mimetype = PdfType
    THEN IF f.parses THEN Returned(f.text)
         ELSE Returned(<<"[System: PDF parse problem]">>)
    ELSE IF IsTextType(f.mimetype) THEN Returned(f.text)
    ELSE Returned(<<"[System: file type not supported]">>)

---------------------------------------------------------------------------
(* The prompt sent upstream. *)

\* (A composition that leaves the file's text out.)
ComposeWithoutFile(v, p, t) == p

\* fullPrompt / finalPrompt of the handlers: the user's prompt when the
\* extracted text is falsy, else a template holding both.
Compose(v, p, t) ==
    IF t = <<>> THEN p
    ELSE CASE v = "p2_chat" ->
                <<"Based on the following file content:\n\n---\n">> \o t
                    \o <<"\n---\n\nAnswer this question: \"">> \o p \o <<"\"">>
           [] v = "p4_chat" ->
                <<"File content:\n">> \o t \o <<"\n\nQuestion: ">> \o p
           [] v = "p5_chat" ->
                <<"File content:\n">> \o t \o <<"\n\nQuestion: ">> \o p
           [] OTHER -> p \o <<"\n\nFile content:\n">> \o t

\* The text the handler's extractor hands back for the request's file.
Extracted(v, f) ==
    CASE v = "p2_chat" -> IF f.present THEN ReadFileContentP2(f)
                          ELSE Returned(<<>>)
      [] v = "p4_chat" -> IF f.present THEN ReadFileContentP4(f)
                          ELSE Returned(<<>>)
      [] v = "p5_chat" -> IF f.present THEN ReadFileContentP5(f)
                          ELSE Returned(<<>>)
      [] OTHER -> Returned(extractTextFromFile(f))

---------------------------------------------------------------------------
(* The upstream request: which adapter is called, with which model name    *)
(* and which prompt.                                                       *)

NoRequest == [adapter |-> "none", model |-> <<>>, prompt |-> <<>>]

Request(adapter, m, p) == [adapter |-> adapter, model |-> m, prompt |-> p]

\* callOpenRouter(prompt, model = 'deepseek/deepseek-chat')
DefaultOpenRouterModel == <<"deepseek", "deepseek-chat">>

\* model: 'mistralai/mistral-7b-instruct:free'
MistralModel == <<"mistralai", "mistral-7b-instruct:free">>

\* A dispatch either calls an adapter or throws before any call.
Calls(req) == [threw |-> FALSE, req |-> req]

DispatchThrew == [threw |-> TRUE, req |-> NoRequest]

\* (A dispatch that hands the image adapter the composed prompt.)
DallePromptComposed(p, full) == full

\* callDALLE(prompt): the original prompt, not fullPrompt.
DallePrompt(p, full) == p

\* index.js, part_003: model.startsWith('openrouter/') ? model.split('/')[2]
\* : 'deepseek/deepseek-chat'; an undefined third segment falls back to the
\* default parameter of callOpenRouter.
OpenRouterModelBySplit(m) ==
    IF StartsWithSeg(m, "openrouter") /\ Len(m.segs) >= 3
    THEN <<m.segs[3]>>
    ELSE DefaultOpenRouterModel

RECURSIVE RemoveFirstOpenrouter(_)
\* part_001: model.replace('openrouter/', '')
RemoveFirstOpenrouter(segs) ==
    IF Len(segs) < 2 THEN segs
    ELSE IF Head(segs) = "openrouter" THEN Tail(segs)
    ELSE <<Head(segs)>> \o RemoveFirstOpenrouter(Tail(segs))

\* index.js /api/chat: switch (model).
IdxChatDispatch(m, p, full) ==
    IF ~m.present THEN DispatchThrew  \* default: undefined.startsWith
    ELSE CASE m.segs = <<"google", "gemini-1.5-flash">> ->
                Calls(Request("gemini", <<"gemini-1.5-flash">>, full))
           [] m.segs = <<"deepseek-ai", "deepseek-coder">> ->
                Calls(Request("deepseek", <<"deepseek-coder">>, full))
           [] m.segs = <<"openai", "gpt-4o">> ->
                Calls(Request("openai", <<"gpt-4o">>, full))
           [] m.segs = <<"openai", "dalle-3">> ->
                Calls(Request("dalle", <<"dall-e-3">>, DallePrompt(p, full)))
           [] m.segs = <<"deepseek-ai", "deepseek-r1">> ->
                Calls(Request("deepseek", <<"deepseek-r1">>, full))
           [] m.segs = <<"together-ai", "deepseek-r1">> ->
                Calls(Request("together", <<"deepseek-ai", "DeepSeek-R1">>,
                              full))
           [] m.segs = <<"together-ai", "gpt-4.1-nano">> ->
                Calls(Request("together", <<"gpt-4.1-nano">>, full))
           [] OTHER ->
                Calls(Request("openrouter", OpenRouterModelBySplit(m), full))

\* part_003 /api/chat: switch (model).
P3ChatDispatch(m, p, full) ==
    IF ~m.present THEN DispatchThrew
    ELSE CASE m.segs = <<"google", "gemini-1.5-flash">> ->
                Calls(Request("gemini", <<"gemini-1.5-flash">>, full))
           [] m.segs = <<"deepseek", "deepseek-coder">> ->
                Calls(Request("deepseek", <<"deepseek-coder">>, full))
           [] m.segs = <<"openai", "gpt-4o">> ->
                Calls(Request("openai", <<"gpt-4o">>, full))
           [] m.segs = <<"openai", "dalle-3">> ->
                Calls(Request("dalle", <<"dall-e-3">>, DallePrompt(p, full)))
           [] OTHER ->
                Calls(Request("openrouter", OpenRouterModelBySplit(m), full))

\* callDeepSeekR1 of part_000: model: "deepseek/deepseek-r1-0528:free"
DeepSeekR1FreeModel == <<"deepseek", "deepseek-r1-0528:free">>

\* part_000 /api/chat: switch (model).
P0ChatDispatch(m, p, full) ==
    IF ~m.present THEN DispatchThrew  \* default: undefined.startsWith
    ELSE CASE m.segs = <<"google", "gemini-1.5-flash">> ->
                Calls(Request("gemini", <<"gemini-1.5-flash">>, full))
           [] m.segs = <<"deepseek-ai", "deepseek-coder">> ->
                Calls(Request("deepseek", <<"deepseek-coder">>, full))
           [] m.segs = <<"openai", "gpt-4o">> ->
                Calls(Request("openai", <<"gpt-4o">>, full))
           [] m.segs = <<"openai", "dalle-3">> ->
                Calls(Request("dalle", <<"dall-e-3">>, DallePrompt(p, full)))
           [] m.segs = <<"deepseek-ai", "deepseek-r1">> ->
                Calls(Request("deepseek_r1", DeepSeekR1FreeModel, full))
           [] m.segs = <<"together-ai", "deepseek-r1">> ->
                Calls(Request("together", <<"deepseek-ai", "DeepSeek-R1">>,
                              full))
           [] OTHER ->
                Calls(Request("openrouter", OpenRouterModelBySplit(m), full))

\* part_001 callTogetherAI: the model id sent for a selector's second segment.
TogetherModelId(name) ==
    IF name = "deepseek-v2-chat" THEN <<"deepseek-ai", "DeepSeek-V2-Chat">>
    ELSE <<name>>

\* part_001 /api/chat: the if/else-if chain over model.startsWith.
P1ChatDispatch(m, p, full) ==
    IF ~m.present THEN DispatchThrew  \* undefined.startsWith
    ELSE IF StartsWithSeg(m, "google")
    THEN Calls(Request("gemini", <<m.segs[2]>>, full))
    ELSE IF StartsWithSeg(m, "openai")
    THEN IF m.segs[2] = "dalle-3"
         THEN Calls(Request("dalle", <<"dall-e-3">>, DallePrompt(p, full)))
         ELSE Calls(Request("openai", <<m.segs[2]>>, full))
    ELSE IF StartsWithSeg(m, "deepseek-ai")
    THEN Calls(Request("deepseek", <<m.segs[2]>>, full))
    ELSE IF StartsWithSeg(m, "together-ai")
    THEN Calls(Request("together", TogetherModelId(m.segs[2]), full))
    ELSE Calls(Request("openrouter", RemoveFirstOpenrouter(m.segs), full))

\* index.js /api/chat-stream: the adapter of a selector that streams.
IdxStreamRequest(m, full) ==
    CASE m.segs = <<"openai", "gpt-4o">> ->
            Request("openai", <<"gpt-4o">>, full)
      [] m.segs = <<"together-ai", "deepseek-r1">> ->
            Request("together", <<"deepseek-ai", "DeepSeek-R1">>, full)
      [] OTHER -> Request("openrouter", <<"deepseek", "deepseek-r1">>, full)

\* part_001 /api/chat-stream: the request of a selector that streams; the
\* message content is `prompt`.
P1StreamRequest(m, p) ==
    IF StartsWithSeg(m, "openai") THEN Request("openai", <<m.segs[2]>>, p)
    ELSE IF StartsWithSeg(m, "together-ai")
    THEN Request("together", <<"deepseek-ai", "DeepSeek-V2-Chat">>, p)
    ELSE Request("openrouter", RemoveFirstOpenrouter(m.segs), p)

\* The non-streaming handlers with a selector.
ChatVariants == {"idx_chat", "p0_chat", "p1_chat", "p3_chat"}

\* The handlers that keep the upload in a file on disk (multer dest).
DiskVariants == {"p2_chat", "p4_chat"}

ChatDispatch(v, m, p, full) ==
    CASE v = "idx_chat" -> IdxChatDispatch(m, p, full)
      [] v = "p0_chat" -> P0ChatDispatch(m, p, full)
      [] v = "p1_chat" -> P1ChatDispatch(m, p, full)
      [] OTHER -> P3ChatDispatch(m, p, full)

---------------------------------------------------------------------------
(* The provider's answer to a non-streaming call and what the adapter      *)
(* makes of it.                                                            *)

\* The body of an answer: the reply text at the path the adapter reads
\* ("text"), an error object ("errobj"), no container at that path
\* ("noroot": no choices, data or candidates), or the container without its
\* text ("noleaf": choices[0].message without content).
AnswerShapes == {"text", "errobj", "noroot", "noleaf"}

\* What the awaited fetch may come to.
FetchResults == {"reject", "non2xx", "ok"}

Answer(result, shape) == [result |-> result, shape |-> shape]

NoAnswer == Answer("none", "none")

\* The answers put to the non-streaming handlers: a rejected fetch, an
\* error status with a body that is no reply, a success status with any body.
ChatAnswers ==
    {Answer("reject", "none")}
        \cup {Answer("non2xx", sh) : sh \in {"errobj", "noroot"}}
        \cup {Answer("ok", sh) : sh \in AnswerShapes}

\* The answers put to the streaming handlers; the body is the stream.
StreamAnswers ==
    {Answer(r, IF r = "reject" THEN "none" ELSE "stream") : r \in FetchResults}

AnswerInputs(v) ==
    IF v \in ChatVariants \cup {"p2_chat"} THEN ChatAnswers
    ELSE StreamAnswers

\* How the adapter of a handler reads the provider's answer.
\*   checked:         if (!response.ok) throw; data.choices[0].message.content
\*   errfield:        if (data.error) throw; data.choices[0].message.content
\*   gemini_p1:       data.error, candidates and text are all tested
\*   collect_checked: if (!response.ok) throw; the SSE lines are collected
\*   collect:         the SSE lines are collected whatever the status
AdapterStyle(v, adapter) ==
    CASE v \in {"idx_chat", "p2_chat"} -> "checked"
      [] v = "p3_chat" -> "errfield"
      [] v = "p1_chat" ->
            IF adapter = "gemini" THEN "gemini_p1"
            ELSE IF adapter = "dalle" THEN "errfield"
            ELSE "collect_checked"
      [] OTHER ->
            IF adapter \in {"gemini", "dalle"} THEN "errfield"
            \* together.chat.completions.create rejects on an error status
            ELSE IF adapter = "together" THEN "collect_checked"
            ELSE "collect"

\* What the adapter comes to: it throws ("threw") or returns an object whose
\* response is the reply's text ("text"), the empty string ("empty") or
\* undefined ("undefined").
AdapterResult(style, a) ==
    IF a.result = "reject" THEN "threw"
    ELSE CASE style = "checked" ->
                IF a.result = "non2xx" THEN "threw"
                ELSE IF a.shape = "text" THEN "text"
                ELSE IF a.shape = "noleaf" THEN "undefined"
                ELSE "threw"  \* TypeError on data.choices[0]
           [] style = "errfield" ->
                IF a.shape = "text" THEN "text"
                ELSE IF a.shape = "noleaf" THEN "undefined"
                ELSE "threw"
           [] style = "gemini_p1" ->
                IF a.shape = "text" THEN "text" ELSE "threw"
           [] style = "collect_checked" ->
                IF a.result = "non2xx" THEN "threw"
                ELSE IF a.shape = "text" THEN "text"
                ELSE "empty"  \* no line holds a delta
           [] OTHER ->
                IF a.shape = "text" THEN "text" ELSE "empty"

\* The success body of /api/chat: res.json(responseData).
Reply(response, m) == [sent |-> TRUE, response |-> response, model |-> m]

NoReply == [sent |-> FALSE, response |-> "none", model |-> <<>>]

\* The model field of the object the adapter returns.
ReportedModel(v, m, req) ==
    CASE v = "p2_chat" -> <<>>  \* res.json({ reply: ... })
      [] v = "p1_chat" /\ req.adapter = "together" ->
            <<m.segs[2]>>  \* callTogetherAI: model: model
      [] v = "p0_chat" /\ req.adapter = "deepseek_r1" ->
            <<"deepseek", "deepseek-r1">>
      [] OTHER -> req.model

\* The cross-origin check has not run.
NoCors ==
    [env |-> [set |-> FALSE, items |-> <<>>],
     origin |-> [present |-> FALSE, text |-> <<>>],
     verdict |-> "none"]

---------------------------------------------------------------------------
\* fs.unlinkSync(file.path) / deleteTempFile(file)
DeleteTempFile(t) == IF t = "present" THEN "deleted" ELSE t

---------------------------------------------------------------------------
(* Error paths of the streaming handlers. *)

\* index.js: res.write(`data: [ERROR] ${error.message}\n\n`); res.end();
IdxStreamFail(r) == ResEnd(ResWrite(r, RawErrorEvt))

\* part_001: the catch of /api/chat-stream.
P1StreamCatch(r) ==
    ResEnd(ResWrite(ResWrite(r, JsonErrorEvt("SERVER ERROR")), DoneEvt))

\* part_001: the else branch for a selector that does not stream.
P1StreamUnsupported(r) ==
    ResEnd(ResWrite(ResWrite(r, JsonErrorEvt("ERROR")), DoneEvt))

\* (A relay that ends the response without the terminal event.)
OnReaderDoneSilent(r) == ResEnd(r)

\* if (done) { res.write('data: [DONE]\n\n'); res.end(); break; }
OnReaderDone(r) == ResEnd(ResWrite(r, DoneEvt))

\* (An error listener without the headersSent test.)
P5ErrorSendsJsonAlways(r) == TRUE

\* part_005, body.on('error'): a JSON body when no header went out yet.
P5ErrorSendsJson(r) == ~r.headersSent

\* (Listeners without the clientDisconnected test.)
P4MayTouchResponseAlways(cd) == TRUE

\* part_004, the guard of the three body listeners.
P4MayTouchResponse(cd) == ~cd

---------------------------------------------------------------------------
(* The state after construction: a request has arrived at a handler. *)

\* The uploads put to the handlers: none, an empty text file, a text file,
\* a PDF that its parser rejects.
HandlerFiles ==
    {NoFile,
     FileOf("text/plain", "notes.txt", <<>>, TRUE, <<>>),
     FileOf("text/plain", "notes.txt", <<"file text">>, TRUE, <<>>),
     FileOf(PdfType, "paper.pdf", <<"file text">>, FALSE, <<>>)}

Init ==
    /\ variant \in Variants
    /\ prompt \in PromptInputs
    /\ model \in IF variant \in ChatVariants THEN ChatModelInputs
                 ELSE ModelInputs
    /\ file \in HandlerFiles
    /\ hasFile = file.present
    /\ tempFile = IF variant \in DiskVariants /\ hasFile THEN "present"
                  ELSE "none"
    /\ fileContent = <<>>
    /\ fullPrompt = <<>>
    /\ sent = NoRequest
    /\ keySet = TRUE
    /\ answer = NoAnswer
    /\ reply = NoReply
    /\ doneSeen = FALSE
    /\ cors = NoCors
    /\ reqs = <<>>
    /\ pc = "start"
    /\ outcome = "none"
    /\ res = NewRes
    /\ body = <<>>
    /\ pos = 0
    /\ upstream = "idle"
    /\ clientClosed = "no"
    /\ clientDisconnected = FALSE
    /\ readsAfterClose = 0
    /\ extractRuns = 0
    /\ upstreamCalls = 0

inputs == <<variant, prompt, model, hasFile, file, keySet>>

\* The parts modelled on their own, which a single request leaves alone.
apart == <<cors, reqs>>

\* What the provider answered and what the relay has seen of it.
settled == <<answer, reply, doneSeen>>

\* What the handler has worked out for its upstream call.
request == <<fileContent, fullPrompt, sent>>

\* if (!prompt) return res.status(400).json({ error: ... })
Validate ==
    /\ pc = "start"
    /\ IF PromptRejected(variant, prompt)
       THEN /\ res' = ResJson(res, 400)
            /\ pc' = "done"
            /\ outcome' = "invalid"
            \* part_002 returns inside its try: the finally block runs;
            \* part_004 returns before its try
            /\ tempFile' = IF variant = "p2_chat" THEN DeleteTempFile(tempFile)
                           ELSE tempFile
       ELSE /\ pc' = "extract"
            /\ UNCHANGED <<res, outcome, tempFile>>
    /\ UNCHANGED <<inputs, apart, settled, request, body, pos, upstream, clientClosed,
                   clientDisconnected, readsAfterClose, extractRuns,
                   upstreamCalls>>

\* The handler's own state is left as it is.
HandlerIdle == UNCHANGED <<clientClosed, clientDisconnected, readsAfterClose>>

\* The handler goes on to await its upstream call.
GoFetch(r, req) ==
    /\ res' = r
    /\ pc' = "fetch"
    /\ outcome' = outcome
    /\ upstreamCalls' = upstreamCalls + 1
    /\ sent' = req

\* The handler ends without an upstream call.
StopAt(r, o) ==
    /\ res' = r
    /\ pc' = "done"
    /\ outcome' = o
    /\ upstreamCalls' = upstreamCalls
    /\ sent' = sent

\* The await of the file's text resolves and the handler runs on to its
\* upstream call: the composed prompt, the event-stream headers (streaming
\* handlers), the dispatch on the selector, the fetch being issued.
ExtractAndDispatch ==
    /\ pc = "extract"
    /\ extractRuns' =
           IF variant \in {"p2_chat", "p4_chat", "p5_chat"} /\ ~hasFile
           THEN extractRuns ELSE extractRuns + 1
    /\ LET ex == Extracted(variant, file)
           full == Compose(variant, prompt.text, ex.text)
       IN  IF ex.threw
           THEN \* part_002: the catch answers 500, the finally unlinks
                /\ StopAt(ResJson(res, 500), "extract_failed")
                /\ tempFile' = DeleteTempFile(tempFile)
                /\ UNCHANGED <<fileContent, fullPrompt>>
           ELSE /\ fileContent' = ex.text
                /\ fullPrompt' = full
                /\ tempFile' = tempFile
                /\ CASE variant = "idx_stream" ->
                          IF IdxStreamSupported(model)
                          THEN GoFetch(ResSetEventStream(res),
                                       IdxStreamRequest(model, full))
                          ELSE StopAt(IdxStreamFail(ResSetEventStream(res)),
                                      "unsupported")
                     [] variant = "p1_stream" ->
                          IF ~model.present
                          THEN \* model.startsWith throws into the catch
                               StopAt(P1StreamCatch(ResFlushHeaders(
                                          ResSetEventStream(res))), "threw")
                          ELSE IF P1StreamSupported(model)
                          THEN GoFetch(ResFlushHeaders(ResSetEventStream(res)),
                                       P1StreamRequest(model, prompt.text))
                          ELSE StopAt(P1StreamUnsupported(ResFlushHeaders(
                                          ResSetEventStream(res))),
                                      "unsupported")
                     [] variant \in ChatVariants ->
                          LET d == ChatDispatch(variant, model, prompt.text,
                                                full)
                          IN  IF d.threw
                              THEN StopAt(ResJson(res, 500), "threw")
                              ELSE GoFetch(res, d.req)
                     [] OTHER ->
                          GoFetch(res, Request("openrouter", MistralModel,
                                               full))
    /\ UNCHANGED <<inputs, apart, settled, body, pos, upstream>>
    /\ HandlerIdle

\* The upstream response arrives with its body stream open.
BodyOpens(b) ==
    /\ body' = b
    /\ pos' = 0
    /\ upstream' = "open"
    /\ pc' = "relay"
    /\ outcome' = outcome

\* The handler ends without an upstream body.
NoBody(o) ==
    /\ pc' = "done"
    /\ outcome' = o
    /\ UNCHANGED <<body, pos, upstream>>

\* await fetch(...) settles, and the handler runs on to its first read or to
\* the registration of its listeners.
FetchSettles ==
    /\ pc = "fetch"
    /\ \E a \in AnswerInputs(variant), b \in Bodies(MaxHandlerLines) :
       LET result == a.result
           made == AdapterResult(AdapterStyle(variant, sent.adapter), a)
       IN
         /\ answer' = a
         /\ reply' = IF variant \in ChatVariants \cup {"p2_chat"}
                         /\ made # "threw"
                      THEN Reply(made, ReportedModel(variant, model, sent))
                      ELSE reply
         /\ CASE variant = "idx_stream" ->
                   IF result = "ok"
                   THEN res' = res /\ BodyOpens(b)
                   ELSE res' = IdxStreamFail(res) /\ NoBody("upstream_failed")
              [] variant = "p1_stream" ->
                   IF result = "ok"
                   THEN res' = res /\ BodyOpens(b)
                   ELSE res' = P1StreamCatch(res) /\ NoBody("upstream_failed")
              [] variant \in ChatVariants \cup {"p2_chat"} ->
                   IF made # "threw"
                   THEN res' = ResJson(res, 200) /\ NoBody("replied")
                   ELSE res' = ResJson(res, 500) /\ NoBody("upstream_failed")
              [] variant = "p4_chat" ->
                   IF result = "ok"
                   THEN /\ res' = ResFlushHeaders(ResSetEventStream(res))
                        /\ BodyOpens(b)
                   ELSE /\ res' = IF res.headersSent THEN res
                                  ELSE ResJson(res, 500)
                        /\ NoBody("upstream_failed")
              [] variant = "p5_chat" ->
                   IF result = "ok"
                   THEN res' = ResSetEventStream(res) /\ BodyOpens(b)
                   ELSE IF result = "non2xx"
                   THEN res' = ResJson(res, 502) /\ NoBody("upstream_failed")
                   ELSE /\ res' = IF res.headersSent THEN ResEnd(res)
                                  ELSE ResJson(res, 500)
                        /\ NoBody("upstream_failed")
         /\ tempFile' =
                \* part_002: finally; part_004: the catch
                IF \/ variant = "p2_chat"
                   \/ variant = "p4_chat" /\ result # "ok"
                THEN DeleteTempFile(tempFile) ELSE tempFile
    /\ UNCHANGED <<inputs, apart, doneSeen, request, extractRuns,
                   upstreamCalls>>
    /\ HandlerIdle

\* (A chunk taken from the start of the body again.)
NextChunkFromStart(k) == SubSeq(body, 1, k)

\* The next k units of the upstream body.
NextChunk(k) == SubSeq(body, pos + 1, pos + k)

Consumed(k) ==
    /\ pos' = pos + k
    /\ readsAfterClose' =
           IF clientClosed = "no" \/ readsAfterClose >= MaxReadsCounted
           THEN readsAfterClose ELSE readsAfterClose + 1

\* await reader.read() yields a chunk; the handler runs its for loop over
\* the chunk's lines and comes back to the next read.  response.body is taken
\* to offer the reader the code asks of it (getReader, read).
ReadChunk ==
    /\ pc = "relay"
    /\ variant \in ReframeVariants
    /\ upstream = "open"
    /\ \E k \in 1..(Len(body) - pos) :
         /\ Consumed(k)
         /\ doneSeen' = (doneSeen \/ SeesDone(variant, NextChunk(k)))
         /\ IF variant = "idx_stream"
            THEN LET p == ProcessLines(LinesOfChunk(NextChunk(k)), res) IN
                 /\ res' = p.res
                 /\ pc' = IF p.returned THEN "done" ELSE pc
                 /\ outcome' = IF p.returned THEN "sentinel" ELSE outcome
            ELSE /\ res' = ProcessLinesP1(DataLinesOfChunk(NextChunk(k)), res)
                 /\ UNCHANGED <<pc, outcome>>
    /\ UNCHANGED <<inputs, apart, answer, reply, request, tempFile, body,
                   upstream, clientClosed, clientDisconnected, extractRuns,
                   upstreamCalls>>

\* await reader.read() yields done: the upstream body is over.
ReadDone ==
    /\ pc = "relay"
    /\ variant \in ReframeVariants
    /\ upstream = "open"
    /\ pos = Len(body)
    /\ res' = OnReaderDone(res)
    /\ pc' = "done"
    /\ outcome' = "eof"
    /\ upstream' = "ended"
    /\ UNCHANGED <<inputs, apart, settled, request, tempFile, body, pos, extractRuns,
                   upstreamCalls>>
    /\ HandlerIdle

\* await reader.read() rejects: the upstream connection failed mid-stream.
ReadError ==
    /\ pc = "relay"
    /\ variant \in ReframeVariants
    /\ upstream = "open"
    /\ res' = IF variant = "idx_stream" THEN IdxStreamFail(res)
              ELSE P1StreamCatch(res)
    /\ pc' = "done"
    /\ outcome' = "read_failed"
    /\ upstream' = "errored"
    /\ UNCHANGED <<inputs, apart, settled, request, tempFile, body, pos, extractRuns,
                   upstreamCalls>>
    /\ HandlerIdle

\* The pass-through relays' upstream body may still deliver an event: it is
\* open, or it was destroyed with an event already queued.
Emitting == upstream \in {"open", "destroyed"}

\* part_005: aiResponse.body.pipe(res) still feeds the response.  The pipe
\* unpipes when the response closes after it was set up.
Piped == clientClosed # "relay"

\* aiResponse.body emits 'data'.
OnData ==
    /\ pc = "relay"
    /\ \E k \in 1..(Len(body) - pos) :
         /\ Consumed(k)
         /\ CASE variant = "p4_chat" ->
                   /\ Emitting
                   /\ res' = IF P4MayTouchResponse(clientDisconnected)
                             THEN ResWrite(res, RawEvt(NextChunk(k))) ELSE res
              [] variant = "p5_chat" ->
                   /\ upstream = "open"
                   /\ Piped
                   /\ res' = ResWrite(res, RawEvt(NextChunk(k)))
              [] OTHER -> FALSE
    /\ UNCHANGED <<inputs, apart, settled, request, tempFile, pc, outcome, body, upstream,
                   clientClosed, clientDisconnected, extractRuns,
                   upstreamCalls>>

Settled(s) == IF upstream = "destroyed" THEN "destroyed" ELSE s

\* aiResponse.body emits 'end'.
OnEnd ==
    /\ pc = "relay"
    /\ pos = Len(body)
    /\ CASE variant = "p4_chat" ->
              /\ Emitting
              /\ res' = IF P4MayTouchResponse(clientDisconnected)
                        THEN ResEnd(res) ELSE res
         [] variant = "p5_chat" ->
              /\ upstream = "open"
              \* pipe's own 'end' listener, then the handler's
              /\ res' = ResEnd(IF Piped THEN ResEnd(res) ELSE res)
         [] OTHER -> FALSE
    /\ pc' = "done"
    /\ outcome' = "eof"
    /\ upstream' = Settled("ended")
    \* part_004: deleteTempFile(file), whatever the flag says
    /\ tempFile' = IF variant = "p4_chat" THEN DeleteTempFile(tempFile)
                   ELSE tempFile
    /\ UNCHANGED <<inputs, apart, settled, request, body, pos, extractRuns, upstreamCalls>>
    /\ HandlerIdle

\* aiResponse.body emits 'error'.
OnError ==
    /\ pc = "relay"
    /\ CASE variant = "p4_chat" ->
              /\ Emitting
              /\ res' = IF P4MayTouchResponse(clientDisconnected)
                        THEN ResEnd(ResStatus(res, 500)) ELSE res
         [] variant = "p5_chat" ->
              /\ upstream = "open"
              /\ res' = IF P5ErrorSendsJson(res) THEN ResJson(res, 500)
                        ELSE ResEnd(res)
         [] OTHER -> FALSE
    /\ pc' = "done"
    /\ outcome' = "read_failed"
    /\ upstream' = Settled("errored")
    \* part_004: deleteTempFile(file), whatever the flag says
    /\ tempFile' = IF variant = "p4_chat" THEN DeleteTempFile(tempFile)
                   ELSE tempFile
    /\ UNCHANGED <<inputs, apart, settled, request, body, pos, extractRuns, upstreamCalls>>
    /\ HandlerIdle

\* The client connection closes.  part_004's req.on('close') listener exists
\* only once the relay is set up; it sets the flag and destroys the body.
ClientClose ==
    /\ clientClosed = "no"
    /\ pc # "done"
    /\ clientClosed' = pc
    /\ IF variant = "p4_chat" /\ pc = "relay"
       THEN clientDisconnected' = TRUE /\ upstream' = "destroyed"
       ELSE UNCHANGED <<clientDisconnected, upstream>>
    /\ UNCHANGED <<inputs, apart, settled, request, tempFile, pc, outcome, res, body, pos,
                   readsAfterClose, extractRuns, upstreamCalls>>

Next ==
    \/ Validate
    \/ ExtractAndDispatch
    \/ FetchSettles
    \/ ReadChunk
    \/ ReadDone
    \/ ReadError
    \/ OnData
    \/ OnEnd
    \/ OnError
    \/ ClientClose

Spec == Init /\ [][Next]_vars

---------------------------------------------------------------------------
(***************************************************************************)
(* The re-framed relay on its own: the handler has validated the request,  *)
(* set its headers and received a 2xx upstream response, and stands at its *)
(* first reader.read().                                                    *)
(***************************************************************************)
InitRelay ==
    /\ variant \in ReframeVariants
    /\ prompt = PromptOf(<<"a", "b", "c">>)
    /\ model = ModelOf(<<"openai", "gpt-4o">>)
    /\ hasFile = FALSE
    /\ file = NoFile
    /\ tempFile = "none"
    /\ fileContent = <<>>
    /\ fullPrompt = prompt.text
    /\ sent = IF variant = "idx_stream"
              THEN IdxStreamRequest(model, fullPrompt)
              ELSE P1StreamRequest(model, prompt.text)
    /\ keySet = TRUE
    /\ answer = Answer("ok", "stream")
    /\ reply = NoReply
    /\ doneSeen = FALSE
    /\ cors = NoCors
    /\ reqs = <<>>
    /\ pc = "relay"
    /\ outcome = "none"
    /\ res = IF variant = "idx_stream" THEN ResSetEventStream(NewRes)
             ELSE ResFlushHeaders(ResSetEventStream(NewRes))
    /\ body \in Bodies(MaxLines)
    /\ pos = 0
    /\ upstream = "open"
    /\ clientClosed = "no"
    /\ clientDisconnected = FALSE
    /\ readsAfterClose = 0
    /\ extractRuns = 1
    /\ upstreamCalls = 1

NextRelay ==
    \/ ReadChunk
    \/ ReadDone
    \/ ReadError
    \/ ClientClose

SpecRelay == InitRelay /\ [][NextRelay]_vars

---------------------------------------------------------------------------
(***************************************************************************)
(* The extractors on their own: a validated request with an upload stands  *)
(* at the await of its file's text; every extractor is put to every        *)
(* declared type, parser outcome and archive.                              *)
(***************************************************************************)
ExtractVariants == {"idx_chat", "p2_chat", "p4_chat", "p5_chat"}

FileNames == {"report", "data.bin"}

EntryNames == {"2", "10", "a.txt", "lib/"}

EntryKinds == {"dir", "text", "binary"}

\* The archives of at most n entries, no name twice.
Archives(n) ==
    {es \in SeqsUpTo({ZipEntry(nm, k) : nm \in EntryNames, k \in EntryKinds},
                     n) :
        \A i, j \in 1..Len(es) : i # j => es[i].name # es[j].name}

\* part_004: the fileFilter of its multer instance lets these types through.
P4AllowedTypes == {PdfType, "text/plain", "application/json"}

ExtractFiles(v) ==
    {FileOf(mt, nm, tx, ok, es) :
        mt \in IF v = "p4_chat" THEN P4AllowedTypes ELSE MimeTypes,
        nm \in FileNames, tx \in {<<>>, <<"file text">>}, ok \in BOOLEAN,
        es \in Archives(MaxEntries)}

InitExtract ==
    /\ variant \in ExtractVariants
    /\ prompt = PromptOf(<<"a", "b", "c">>)
    /\ model = ModelOf(<<"openai", "gpt-4o">>)
    /\ file \in {f \in ExtractFiles(variant) :
                    f.mimetype # ZipType => f.entries = <<>>}
    /\ hasFile = TRUE
    /\ tempFile = IF variant \in DiskVariants THEN "present" ELSE "none"
    /\ fileContent = <<>>
    /\ fullPrompt = <<>>
    /\ sent = NoRequest
    /\ keySet = TRUE
    /\ answer = NoAnswer
    /\ reply = NoReply
    /\ doneSeen = FALSE
    /\ cors = NoCors
    /\ reqs = <<>>
    /\ pc = "extract"
    /\ outcome = "none"
    /\ res = NewRes
    /\ body = <<>>
    /\ pos = 0
    /\ upstream = "idle"
    /\ clientClosed = "no"
    /\ clientDisconnected = FALSE
    /\ readsAfterClose = 0
    /\ extractRuns = 0
    /\ upstreamCalls = 0

NextExtract == ExtractAndDispatch

SpecExtract == InitExtract /\ [][NextExtract]_vars

---------------------------------------------------------------------------
(***************************************************************************)
(* Start-up and the provider's credential.  part_004 tests                 *)
(* OPENROUTER_API_KEY before it builds the app; index.js reads its keys    *)
(* only inside the template literal of the Authorization header.           *)
(***************************************************************************)

\* A request that no handler has touched yet.
Untouched ==
    /\ fileContent = <<>>
    /\ fullPrompt = <<>>
    /\ sent = NoRequest
    /\ answer = NoAnswer
    /\ reply = NoReply
    /\ doneSeen = FALSE
    /\ outcome = "none"
    /\ res = NewRes
    /\ body = <<>>
    /\ pos = 0
    /\ upstream = "idle"
    /\ clientClosed = "no"
    /\ clientDisconnected = FALSE
    /\ readsAfterClose = 0
    /\ extractRuns = 0
    /\ upstreamCalls = 0

\* if (!process.env.OPENROUTER_API_KEY) { ...; process.exit(1); }
ValidatesEnvironment(v) == v = "p4_chat"

InitKeys ==
    /\ variant \in {"idx_chat", "p4_chat"}
    /\ prompt \in PromptInputs
    /\ model \in IF variant \in ChatVariants THEN ChatModelInputs
                 ELSE ModelInputs
    /\ file \in HandlerFiles
    /\ hasFile = file.present
    /\ tempFile = IF variant \in DiskVariants /\ hasFile THEN "present"
                  ELSE "none"
    /\ keySet \in BOOLEAN
    /\ cors = NoCors
    /\ reqs = <<>>
    /\ pc = "boot"
    /\ Untouched

\* The module's top level runs; the server then takes the request.
Boot ==
    /\ pc = "boot"
    /\ pc' = IF ValidatesEnvironment(variant) /\ ~keySet THEN "exited"
             ELSE "start"
    /\ UNCHANGED <<inputs, apart, settled, request, tempFile, outcome, res,
                   body, pos, upstream, extractRuns, upstreamCalls>>
    /\ HandlerIdle

NextKeys ==
    \/ Boot
    \/ Validate
    \/ ExtractAndDispatch
    \/ FetchSettles

SpecKeys == InitKeys /\ [][NextKeys]_vars

---------------------------------------------------------------------------
(***************************************************************************)
(* Two requests relayed side by side by one process.  Node runs one        *)
(* callback at a time: the variables hold the request whose callback runs, *)
(* reqs holds the other one, and Switch hands the turn over.  Everything   *)
(* a handler declares (reader, buffer, clientDisconnected, res, file) is   *)
(* local to its invocation and travels with its request.                   *)
(***************************************************************************)

\* The state of the request whose callback runs.
Own ==
    [variant |-> variant,
     prompt |-> prompt,
     model |-> model,
     hasFile |-> hasFile,
     file |-> file,
     tempFile |-> tempFile,
     fileContent |-> fileContent,
     fullPrompt |-> fullPrompt,
     sent |-> sent,
     answer |-> answer,
     reply |-> reply,
     doneSeen |-> doneSeen,
     pc |-> pc,
     outcome |-> outcome,
     res |-> res,
     body |-> body,
     pos |-> pos,
     upstream |-> upstream,
     clientClosed |-> clientClosed,
     clientDisconnected |-> clientDisconnected,
     readsAfterClose |-> readsAfterClose,
     extractRuns |-> extractRuns,
     upstreamCalls |-> upstreamCalls]

\* (A flag declared at module level: one for all requests.)
ModuleScope(mine, last) == last

\* let clientDisconnected = false; inside the handler: each request has its
\* own flag.
HandlerScope(mine, last) == mine

PairVariants == {"p4_chat", "idx_stream"}

\* The upstream bodies of the two requests: one delta line each.
PairBodies == {DeltaLine(c) : c \in Contents}

\* A request whose upstream call has answered and whose relay is set up.
RelayEntry(v, b) ==
    LET PairPrompt == PromptOf(<<"a", "b", "c">>)
        PairModel == ModelOf(<<"openai", "gpt-4o">>)
        PairFile ==
            FileOf("text/plain", "notes.txt", <<"file text">>, TRUE, <<>>)
        ex == Extracted(v, PairFile)
        full == Compose(v, PairPrompt.text, ex.text)
    IN  [variant |-> v,
         prompt |-> PairPrompt,
         model |-> PairModel,
         hasFile |-> TRUE,
         file |-> PairFile,
         tempFile |-> IF v \in DiskVariants THEN "present" ELSE "none",
         fileContent |-> ex.text,
         fullPrompt |-> full,
         sent |-> IF v = "idx_stream" THEN IdxStreamRequest(PairModel, full)
                  ELSE Request("openrouter", MistralModel, full),
         answer |-> Answer("ok", "stream"),
         reply |-> NoReply,
         doneSeen |-> FALSE,
         pc |-> "relay",
         outcome |-> "none",
         res |-> IF v = "idx_stream" THEN ResSetEventStream(NewRes)
                 ELSE ResFlushHeaders(ResSetEventStream(NewRes)),
         body |-> b,
         pos |-> 0,
         upstream |-> "open",
         clientClosed |-> "no",
         clientDisconnected |-> FALSE,
         readsAfterClose |-> 0,
         extractRuns |-> 1,
         upstreamCalls |-> 1]

\* Both requests are of the same revision: they are served by one process.
InitPair ==
    /\ variant \in PairVariants
    /\ body \in PairBodies
    /\ prompt = RelayEntry(variant, body).prompt
    /\ model = RelayEntry(variant, body).model
    /\ hasFile = RelayEntry(variant, body).hasFile
    /\ file = RelayEntry(variant, body).file
    /\ tempFile = RelayEntry(variant, body).tempFile
    /\ fileContent = RelayEntry(variant, body).fileContent
    /\ fullPrompt = RelayEntry(variant, body).fullPrompt
    /\ sent = RelayEntry(variant, body).sent
    /\ answer = RelayEntry(variant, body).answer
    /\ reply = RelayEntry(variant, body).reply
    /\ doneSeen = RelayEntry(variant, body).doneSeen
    /\ pc = RelayEntry(variant, body).pc
    /\ outcome = RelayEntry(variant, body).outcome
    /\ res = RelayEntry(variant, body).res
    /\ pos = RelayEntry(variant, body).pos
    /\ upstream = RelayEntry(variant, body).upstream
    /\ clientClosed = RelayEntry(variant, body).clientClosed
    /\ clientDisconnected = RelayEntry(variant, body).clientDisconnected
    /\ readsAfterClose = RelayEntry(variant, body).readsAfterClose
    /\ extractRuns = RelayEntry(variant, body).extractRuns
    /\ upstreamCalls = RelayEntry(variant, body).upstreamCalls
    /\ keySet = TRUE
    /\ cors = NoCors
    /\ reqs \in {<<RelayEntry(variant, b)>> : b \in PairBodies}

\* The event loop runs a callback of the other request next.
Switch ==
    /\ reqs # <<>>
    /\ reqs' = <<Own>>
    /\ variant' = reqs[1].variant
    /\ prompt' = reqs[1].prompt
    /\ model' = reqs[1].model
    /\ hasFile' = reqs[1].hasFile
    /\ file' = reqs[1].file
    /\ tempFile' = reqs[1].tempFile
    /\ fileContent' = reqs[1].fileContent
    /\ fullPrompt' = reqs[1].fullPrompt
    /\ sent' = reqs[1].sent
    /\ answer' = reqs[1].answer
    /\ reply' = reqs[1].reply
    /\ doneSeen' = reqs[1].doneSeen
    /\ pc' = reqs[1].pc
    /\ outcome' = reqs[1].outcome
    /\ res' = reqs[1].res
    /\ body' = reqs[1].body
    /\ pos' = reqs[1].pos
    /\ upstream' = reqs[1].upstream
    /\ clientClosed' = reqs[1].clientClosed
    /\ clientDisconnected' =
           HandlerScope(reqs[1].clientDisconnected, clientDisconnected)
    /\ readsAfterClose' = reqs[1].readsAfterClose
    /\ extractRuns' = reqs[1].extractRuns
    /\ upstreamCalls' = reqs[1].upstreamCalls
    /\ UNCHANGED <<keySet, cors>>

NextPair ==
    \/ ReadChunk
    \/ ReadDone
    \/ ReadError
    \/ OnData
    \/ OnEnd
    \/ OnError
    \/ ClientClose
    \/ Switch

SpecPair == InitPair /\ [][NextPair]_vars

---------------------------------------------------------------------------
(***************************************************************************)
(* The cross-origin check of part_002, part_004 and part_005.              *)
(* ALLOWED_ORIGINS is unset or a string, here its comma-separated items,   *)
(* each a sequence of characters.                                          *)
(***************************************************************************)

NoEnv == [set |-> FALSE, items |-> <<>>]

EnvOf(items) == [set |-> TRUE, items |-> items]

\* The items a configuration is written with.
OriginItems == {<<>>, <<" ">>, <<"a">>, <<" ", "a", " ">>, <<"b">>}

\* "".split(',') is [""]: the string always has a first item.
AllowedOriginsInputs ==
    {NoEnv} \cup {EnvOf(is) : is \in SeqsUpTo(OriginItems, MaxOrigins) \ {<<>>}}

\* The Origin header of a request: absent or a string.
NoOrigin == [present |-> FALSE, text |-> <<>>]

OriginOf(text) == [present |-> TRUE, text |-> text]

OriginInputs == {NoOrigin, OriginOf(<<"a">>), OriginOf(<<"b">>), OriginOf(<<"c">>)}

\* (process.env.ALLOWED_ORIGINS || "").split(',')
SplitOnComma(env) == IF env.set THEN env.items ELSE <<<<>>>>

\* .map(s => s.trim()).filter(Boolean)
allowedOrigins(env) ==
    LET items == SplitOnComma(env)
        trimmed == [i \in 1..Len(items) |-> Trim(items[i])]
    IN  SelectSeq(trimmed, LAMBDA t : t # <<>>)

\* allowedOrigins.includes(origin)
Includes(list, text) == \E i \in 1..Len(list) : list[i] = text

\* The origin callback: TRUE for callback(null, true), FALSE for
\* callback(new Error(...)).
CorsAllows(v, env, origin) ==
    \/ ~origin.present
    \/ Includes(allowedOrigins(env), origin.text)
    \/ v \in {"p4_chat", "p5_chat"} /\ Len(allowedOrigins(env)) = 0

CorsVariants == {"p2_chat", "p4_chat", "p5_chat"}

InitCors ==
    /\ variant \in CorsVariants
    /\ prompt = PromptOf(<<"a", "b", "c">>)
    /\ model = NoModel
    /\ file = NoFile
    /\ hasFile = FALSE
    /\ tempFile = "none"
    /\ keySet = TRUE
    /\ cors \in [env : AllowedOriginsInputs, origin : OriginInputs,
                  verdict : {"none"}]
    /\ reqs = <<>>
    /\ pc = "cors"
    /\ Untouched

\* The cors middleware calls the origin function for the request.
CorsCheck ==
    /\ pc = "cors"
    /\ cors.verdict = "none"
    /\ cors' = [cors EXCEPT !.verdict =
                   IF CorsAllows(variant, cors.env, cors.origin)
                   THEN "allowed" ELSE "rejected"]
    /\ UNCHANGED <<inputs, reqs, settled, request, tempFile, pc, outcome, res,
                   body, pos, upstream, extractRuns, upstreamCalls>>
    /\ HandlerIdle

NextCors == CorsCheck

SpecCors == InitCors /\ [][NextCors]_vars

---------------------------------------------------------------------------
(***************************************************************************)
(* The re-framed relay under fair scheduling.  A chunk the upstream has    *)
(* delivered resolves the pending reader.read(), and the event loop then   *)
(* resumes the handler: reading what has arrived is weakly fair.  Whether  *)
(* and when the upstream closes or fails is the provider's doing and has   *)
(* no fairness.                                                            *)
(***************************************************************************)
InitFair ==
    /\ variant \in ReframeVariants
    /\ prompt = PromptOf(<<"a", "b", "c">>)
    /\ model = ModelOf(<<"openai", "gpt-4o">>)
    /\ hasFile = FALSE
    /\ file = NoFile
    /\ tempFile = "none"
    /\ fileContent = <<>>
    /\ fullPrompt = prompt.text
    /\ sent = IF variant = "idx_stream"
              THEN IdxStreamRequest(model, fullPrompt)
              ELSE P1StreamRequest(model, prompt.text)
    /\ keySet = TRUE
    /\ answer = Answer("ok", "stream")
    /\ reply = NoReply
    /\ doneSeen = FALSE
    /\ cors = NoCors
    /\ reqs = <<>>
    /\ pc = "relay"
    /\ outcome = "none"
    /\ res = IF variant = "idx_stream" THEN ResSetEventStream(NewRes)
             ELSE ResFlushHeaders(ResSetEventStream(NewRes))
    /\ body \in Bodies(MaxFairLines)
    /\ pos = 0
    /\ upstream = "open"
    /\ clientClosed = "no"
    /\ clientDisconnected = FALSE
    /\ readsAfterClose = 0
    /\ extractRuns = 1
    /\ upstreamCalls = 1

SpecFair == InitFair /\ [][NextRelay]_vars /\ WF_vars(ReadChunk)

---------------------------------------------------------------------------
(* Properties. *)

Last(q) == q[Len(q)]

\* The events of kind t among q.
OfKind(q, t) == SelectSeq(q, LAMBDA e : e.t = t)

IsErrorEvt(e) == e.t \in {"rawerr", "jsonerr"}

Completed == pc = "done" /\ outcome \in {"sentinel", "eof"}

(***************************************************************************)
(* C1.  No request produces two response bodies: at most one JSON body is  *)
(* sent, none is sent once an event stream has started, and no stream      *)
(* event is written beside a JSON body.                                    *)
(***************************************************************************)
C1_OneResponseBody ==
    /\ res.jsonCalls <= 1
    /\ ~res.jsonAfterStream
    /\ ~(res.jsonCalls = 1 /\ res.out # <<>>)

\* part_005: the upstream body fails before any byte was relayed, and the
\* error listener answers with the one JSON body.
C1_Witness ==
    /\ variant = "p5_chat"
    /\ outcome = "read_failed"
    /\ res.jsonCalls = 1
    /\ res.status = 500
    /\ res.out = <<>>

(***************************************************************************)
(* C2.  Re-framed relay: for an upstream body of well-formed delta lines   *)
(* d1..dn followed by the [DONE] line, the client receives one content     *)
(* event per non-empty delta, in upstream order, then exactly one [DONE]   *)
(* event, and nothing else.                                                *)
(***************************************************************************)
DeltaLines == {DeltaLine(c) : c \in Contents \cup {""}}

WellFormedBody(b) ==
    \E ls \in SeqsUpTo(DeltaLines, MaxLines) : b = Flatten(ls) \o DoneLine

RECURSIVE DeltasOfBody(_)
\* The non-empty contents of a well-formed body's delta lines, in order.
DeltasOfBody(b) ==
    IF Len(b) < 4 \/ b[2].u # "head" THEN <<>>
    ELSE (IF b[2].c = "" THEN <<>> ELSE <<ContentEvt(b[2].c)>>)
         \o DeltasOfBody(SubSeq(b, 5, Len(b)))

C2_WellFormedBodyRelayed ==
    (variant \in ReframeVariants /\ Completed /\ WellFormedBody(body))
        => /\ res.out = Append(DeltasOfBody(body), DoneEvt)
           /\ res.ended

(***************************************************************************)
(* C3.  Re-framed relay: when the reader reports done (the upstream body   *)
(* ended and no [DONE] sentinel ended the relay before), the last event    *)
(* written is [DONE] and the response is ended, once.                      *)
(***************************************************************************)
C3_DoneOnUpstreamEnd ==
    (variant \in ReframeVariants /\ outcome = "eof")
        => /\ res.out # <<>>
           /\ Last(res.out) = DoneEvt
           /\ Len(OfKind(res.out, "done")) = 1
           /\ res.ended
           /\ res.endCalls = 1
           /\ res.lateWrites = 0

\* A body of two deltas and no sentinel was relayed to its end.
C3_Witness ==
    /\ variant = "idx_stream"
    /\ outcome = "eof"
    /\ body = DeltaLine("A") \o DeltaLine("B")
    /\ res.out = <<ContentEvt("A"), ContentEvt("B"), DoneEvt>>

(***************************************************************************)
(* C4.  /api/chat-stream: a failure after the event-stream headers were    *)
(* set reaches the client as one JSON-framed error event followed by       *)
(* [DONE] as the last event, and the status is never set after the headers *)
(* went out.                                                               *)
(***************************************************************************)
FailedAfterHeaders ==
    /\ pc = "done"
    /\ outcome \in {"unsupported", "threw", "upstream_failed", "read_failed"}
    /\ res.ctype = "event-stream"

C4_InlineErrorThenDone ==
    /\ (variant \in ReframeVariants /\ FailedAfterHeaders)
           => /\ Len(res.out) >= 2
              /\ res.out[Len(res.out) - 1].t = "jsonerr"
              /\ Last(res.out) = DoneEvt
              /\ Len(SelectSeq(res.out, IsErrorEvt)) = 1
    /\ ~res.lateStatus

(***************************************************************************)
(* C5.  Streaming relays: res.end() is called at most once per request,    *)
(* and nothing is written to the response after it was ended.              *)
(***************************************************************************)
C5_SingleEnd ==
    /\ res.endCalls <= 1
    /\ res.lateWrites = 0

(***************************************************************************)
(* C6.  A request whose prompt is missing or empty is answered 400 with a  *)
(* JSON error; no file extraction runs, no upstream call is made and no    *)
(* event-stream header is set.                                             *)
(***************************************************************************)
C6_EmptyPromptRefused ==
    (Falsy(prompt) /\ pc # "start")
        => /\ pc = "done"
           /\ res.status = 400
           /\ res.jsonCalls = 1
           /\ res.ended
           /\ res.out = <<>>
           /\ res.ctype # "event-stream"
           /\ extractRuns = 0
           /\ upstreamCalls = 0

\* A streaming request without a prompt, with a file attached, was answered.
C6_Witness ==
    /\ variant = "idx_stream"
    /\ ~prompt.present
    /\ hasFile
    /\ pc = "done"
    /\ res.status = 400

(***************************************************************************)
(* C7.  Re-framed relay: a line that fails to parse is skipped and does    *)
(* not end the response; each read forwards every valid delta line of its  *)
(* chunk that precedes a [DONE] line, whatever lines precede it, and the   *)
(* stream still ends with [DONE].  (Chunks holding a complete payload      *)
(* without its "data: " prefix are left aside: the two relays differ on    *)
(* them.)                                                                  *)
(***************************************************************************)
IsDonePiece(piece) == IsDoneMessage(StripDataPrefix(piece))

BarePayload(piece) ==
    piece # <<>> /\ piece[1].u # "pfx"
                 /\ (IsDoneMessage(piece) \/ JsonParses(piece))

RECURSIVE UpToDone(_)
UpToDone(pieces) ==
    IF pieces = <<>> \/ IsDonePiece(Head(pieces)) THEN <<>>
    ELSE <<Head(pieces)>> \o UpToDone(Tail(pieces))

ValidDeltaLine(piece) ==
    \E c \in Contents : piece = <<Pfx, Unit("head", c), Unit("tail", c)>>

RECURSIVE ContentEvents(_)
ContentEvents(pieces) ==
    IF pieces = <<>> THEN <<>>
    ELSE (IF ValidDeltaLine(Head(pieces))
          THEN <<ContentEvt(Head(pieces)[2].c)>> ELSE <<>>)
         \o ContentEvents(Tail(pieces))

C7_ReadStep ==
    LET pieces == SplitOnNl(SubSeq(body, pos + 1, pos'), <<>>)
        written == SubSeq(res'.out, Len(res.out) + 1, Len(res'.out))
    IN  (/\ variant \in ReframeVariants
         /\ pc = "relay"
         /\ pos' > pos
         /\ \A i \in 1..Len(pieces) : ~BarePayload(pieces[i]))
            => /\ OfKind(written, "content") = ContentEvents(UpToDone(pieces))
               /\ SubSeq(res'.out, 1, Len(res.out)) = res.out
               /\ (UpToDone(pieces) = pieces => ~res'.ended /\ pc' = "relay")
               /\ res'.lateWrites = 0

C7_MalformedLineSkipped ==
    /\ [][C7_ReadStep]_vars
    /\ [](variant \in ReframeVariants /\ Completed
             => res.ended /\ Last(res.out) = DoneEvt)

\* A malformed line, then a line cut in two by a read, then a valid delta:
\* the delta after them was forwarded and the stream closed with [DONE].
C7_Witness ==
    /\ variant = "idx_stream"
    /\ body = BadLine \o DeltaLine("A") \o DeltaLine("B")
    /\ outcome = "eof"
    /\ res.out = <<ContentEvt("B"), DoneEvt>>

(***************************************************************************)
(* C8.  Re-framed relay: the events delivered depend on the upstream bytes *)
(* only, not on how the reads partition them: a completed relay delivered  *)
(* what it delivers when the whole body arrives in one read.               *)
(***************************************************************************)
RelayStart ==
    IF variant = "idx_stream" THEN ResSetEventStream(NewRes)
    ELSE ResFlushHeaders(ResSetEventStream(NewRes))

OneReadOut(b) ==
    IF variant = "idx_stream"
    THEN LET p == ProcessLines(LinesOfChunk(b), RelayStart) IN
         IF p.returned THEN p.res.out ELSE OnReaderDone(p.res).out
    ELSE OnReaderDone(ProcessLinesP1(DataLinesOfChunk(b), RelayStart)).out

C8_PartitionIndependent ==
    (variant \in ReframeVariants /\ Completed) => res.out = OneReadOut(body)

(***************************************************************************)
(* C9.  part_004: when the client's 'close' fires while the upstream body  *)
(* is relayed, the body is destroyed, and from then on the relay writes no *)
(* chunk to the response and does not end it.                              *)
(***************************************************************************)
C9_CloseStep ==
    variant = "p4_chat"
        => /\ (clientClosed = "no" /\ clientClosed' = "relay")
                  => upstream' = "destroyed"
           /\ clientClosed = "relay"
                  => /\ res'.out = res.out
                     /\ res'.ended = res.ended
                     /\ res'.endCalls = res.endCalls

C9_NoWriteAfterDisconnect == [][C9_CloseStep]_vars

\* The client left after a first chunk was relayed, and the upstream body
\* emitted another chunk and its end after that.
C9_Witness ==
    /\ variant = "p4_chat"
    /\ clientClosed = "relay"
    /\ readsAfterClose >= 1
    /\ pc = "done"
    /\ Len(res.out) = 1
    /\ ~res.ended

(***************************************************************************)
(* C10.  Re-framed relays: after the client disconnects mid-stream the     *)
(* upstream read is cancelled: at most one further chunk is consumed.      *)
(***************************************************************************)
C10_ReadCancelledOnDisconnect == readsAfterClose <= 1

(***************************************************************************)
(* C11.  File-on-disk handlers (part_002, part_004): when a request that   *)
(* uploaded a file has come to its end, whichever way (400, extraction     *)
(* failure, upstream failure, upstream end, stream error), its temporary   *)
(* file has been deleted.                                                  *)
(***************************************************************************)
C11_TempFileDeleted ==
    (variant \in DiskVariants /\ hasFile /\ pc = "done")
        => tempFile = "deleted"

(***************************************************************************)
(* C12.  /api/chat: a selector openrouter/<vendor>/<model> calls the       *)
(* OpenRouter adapter with the upstream model name <vendor>/<model>,       *)
(* everything after the first segment.                                     *)
(***************************************************************************)
C12_OpenRouterSelector ==
    (/\ variant \in ChatVariants
     /\ StartsWithSeg(model, "openrouter")
     /\ Len(model.segs) = 3
     /\ sent # NoRequest)
        => /\ sent.adapter = "openrouter"
           /\ sent.model = Tail(model.segs)

(***************************************************************************)
(* C13.  /api/chat: a selector that names no known provider is sent to the *)
(* OpenRouter adapter with the model deepseek/deepseek-chat, and the       *)
(* dispatch does not fail on it.                                           *)
(***************************************************************************)
KnownProviders ==
    {"google", "openai", "deepseek-ai", "deepseek", "together-ai",
     "openrouter"}

UnknownSelector(m) == m.present /\ m.segs[1] \notin KnownProviders

Dispatched == pc \in {"fetch", "relay", "done"} /\ outcome # "invalid"

C13_UnknownSelectorDefault ==
    (variant \in ChatVariants /\ UnknownSelector(model) /\ Dispatched)
        => /\ outcome # "threw"
           /\ sent.adapter = "openrouter"
           /\ sent.model = DefaultOpenRouterModel

(***************************************************************************)
(* C14.  /api/chat: a request with a prompt and no model field is sent to  *)
(* the default adapter and model; the dispatch does not fail on the        *)
(* missing selector.                                                       *)
(***************************************************************************)
C14_ModelOptional ==
    (variant \in ChatVariants /\ ~model.present /\ Dispatched)
        => /\ outcome # "threw"
           /\ sent.adapter = "openrouter"
           /\ sent.model = DefaultOpenRouterModel
           /\ ~(res.jsonCalls = 1 /\ res.status = 500 /\ upstreamCalls = 0)

(***************************************************************************)
(* C15.  /api/chat-stream: an unknown or absent selector is resolved to    *)
(* the default adapter and model and streamed; no error event is written   *)
(* to the client because of the selector.                                  *)
(***************************************************************************)
C15_StreamSelectorFallback ==
    (/\ variant \in ReframeVariants
     /\ ~model.present \/ UnknownSelector(model)
     /\ Dispatched)
        => /\ outcome \notin {"unsupported", "threw"}
           /\ upstreamCalls = 1
           /\ sent.adapter = "openrouter"
           /\ sent.model = DefaultOpenRouterModel

(***************************************************************************)
(* C16.  /api/chat with the selector openai/dalle-3: the prompt handed to  *)
(* the image adapter is the user's prompt itself, with or without an       *)
(* uploaded file; the text extracted from the file is not in it.           *)
(***************************************************************************)
C16_ImagePromptUnmodified ==
    (/\ variant \in ChatVariants
     /\ model = ModelOf(<<"openai", "dalle-3">>)
     /\ Dispatched)
        => /\ sent.adapter = "dalle"
           /\ sent.prompt = prompt.text
           /\ fileContent # <<>> => ~Contains(sent.prompt, fileContent)

\* An image request with a text file attached: the composed prompt holds the
\* file's text, the request sent to the image adapter does not.
C16_Witness ==
    /\ variant = "idx_chat"
    /\ model = ModelOf(<<"openai", "dalle-3">>)
    /\ fileContent = <<"file text">>
    /\ Contains(fullPrompt, fileContent)
    /\ sent = Request("dalle", <<"dall-e-3">>, <<"a", "b", "c">>)
    /\ outcome = "replied"

(***************************************************************************)
(* C17.  Prompt composition: when the extracted text is empty the final    *)
(* prompt is the user's prompt unchanged; when it is not, the final prompt *)
(* differs from the user's prompt and contains both the user's prompt and  *)
(* the extracted text.                                                     *)
(***************************************************************************)
C17_PromptComposition ==
    (Dispatched /\ outcome # "extract_failed")
        => /\ fileContent = <<>> => fullPrompt = prompt.text
           /\ fileContent # <<>>
                  => /\ fullPrompt # prompt.text
                     /\ Contains(fullPrompt, prompt.text)
                     /\ Contains(fullPrompt, fileContent)

\* part_004 composed the text of an uploaded file with the question and sent
\* it upstream.
C17_Witness ==
    /\ variant = "p4_chat"
    /\ fileContent = <<"file text">>
    /\ fullPrompt = <<"File content:\n", "file text", "\n\nQuestion: ",
                      "a", "b", "c">>
    /\ sent.prompt = fullPrompt
    /\ pc = "relay"

(***************************************************************************)
(* C18.  Extraction is total and non-fatal: for every uploaded file,       *)
(* whatever its declared type and whether or not its parser fails, the     *)
(* extractor returns a string, the handler goes on to its upstream call,   *)
(* and for an unsupported type the string holds the MIME type and the      *)
(* file's name.                                                            *)
(***************************************************************************)
UnsupportedType == "application/octet-stream"

C18_ExtractionTotal ==
    (hasFile /\ Dispatched)
        => /\ outcome # "extract_failed"
           /\ upstreamCalls = 1
           /\ file.mimetype = UnsupportedType
                  => /\ Contains(fileContent, <<file.mimetype>>)
                     /\ Contains(fileContent, <<file.originalname>>)

(***************************************************************************)
(* C19.  ZIP extraction (index.js): the text is the archive header, then   *)
(* one block per entry that is not a directory, in the archive's entry     *)
(* order, each labelled with the entry's name; an entry whose decoding     *)
(* fails gives a `binary file, content not shown` block and the entries    *)
(* after it are still listed.                                              *)
(***************************************************************************)
LabelledBlock(e) ==
    IF e.kind = "text"
    THEN <<"--- File: ", e.name, " ---\n", "content of", e.name, "\n\n">>
    ELSE <<"--- File: ", e.name, " (binary file, content not shown) ---\n\n">>

RECURSIVE BlocksInArchiveOrder(_)
BlocksInArchiveOrder(es) ==
    IF es = <<>> THEN <<>>
    ELSE (IF Head(es).kind = "dir" THEN <<>> ELSE LabelledBlock(Head(es)))
         \o BlocksInArchiveOrder(Tail(es))

C19_ZipBlocksInOrder ==
    (/\ variant = "idx_chat"
     /\ file.present /\ file.mimetype = ZipType /\ file.parses
     /\ Dispatched)
        => fileContent =
               <<"ZIP file content '", file.originalname, "':\n\n">>
                   \o BlocksInArchiveOrder(file.entries)

(***************************************************************************)
(* C20.  Streaming endpoints: when the upstream call fails (the fetch      *)
(* rejects or answers non-2xx) before any body byte was written, the       *)
(* client gets one JSON error body with an error status, and no event      *)
(* stream carrying the error inline.                                       *)
(***************************************************************************)
StreamingVariants == {"idx_stream", "p1_stream", "p4_chat", "p5_chat"}

C20_SetupFailureJson ==
    (variant \in StreamingVariants /\ outcome = "upstream_failed")
        => /\ res.jsonCalls = 1
           /\ res.status \in {500, 502}
           /\ res.out = <<>>
           /\ res.ctype # "event-stream"


(***************************************************************************)
(* C21.  /api/chat: when the provider answers with an error status, with a *)
(* body holding an error object, or with a body that lacks the reply at    *)
(* the expected path, the client gets status 500 and no success body.      *)
(***************************************************************************)
BadAnswer(a) ==
    a.result = "non2xx" \/ a.shape \in {"errobj", "noroot", "noleaf"}

C21_ProviderFailureIs500 ==
    (variant \in ChatVariants /\ pc = "done" /\ BadAnswer(answer))
        => res.status = 500 /\ ~reply.sent


(***************************************************************************)
(* C22.  No upstream request is sent for a provider whose credential       *)
(* variable is unset: the process does not start, or the request fails     *)
(* before the call.                                                        *)
(***************************************************************************)
C22_NoCallWithoutCredential ==
    ~keySet => /\ upstreamCalls = 0
               /\ sent = NoRequest


(***************************************************************************)
(* C23.  Two requests in flight are independent.  What a client is sent    *)
(* comes from its own upstream body only; a request whose client stays     *)
(* connected gets its whole relay, its end and its clean-up whatever the   *)
(* other request's client or upstream does; and a step of one request      *)
(* leaves the other request as it was.                                     *)
(***************************************************************************)
RawOf(out) ==
    Flatten([i \in 1..Len(SelectSeq(out, LAMBDA e : e.t = "raw")) |->
                SelectSeq(out, LAMBDA e : e.t = "raw")[i].u])

IsPrefixOf(s, t) == Len(s) <= Len(t) /\ s = SubSeq(t, 1, Len(s))

DeltasOf(b) == {b[i].c : i \in {j \in 1..Len(b) : b[j].u = "head"}}

\* What r's client was sent is made of r's upstream body alone.
OwnUpstreamOnly(r) ==
    /\ IsPrefixOf(RawOf(r.res.out), r.body)
    /\ \A i \in 1..Len(r.res.out) :
           r.res.out[i].t = "content" => r.res.out[i].c \in DeltasOf(r.body)

\* r's relay came to its end as if r were alone.
OwnTermination(r) ==
    (r.clientClosed = "no" /\ r.outcome \in {"eof", "read_failed"})
        => /\ r.res.ended
           /\ r.variant = "p4_chat" => r.tempFile = "deleted"
           /\ (r.variant = "p4_chat" /\ r.outcome = "eof")
                  => RawOf(r.res.out) = r.body

PairIndependent ==
    reqs # <<>> =>
        \A r \in {Own, reqs[1]} : OwnUpstreamOnly(r) /\ OwnTermination(r)

\* A step belongs to one request, or hands the turn over.
OtherUntouched == reqs' = reqs \/ (reqs' = <<Own>> /\ Own' = reqs[1])

C23_RequestsIndependent == []PairIndependent /\ [][OtherUntouched]_vars

\* One request's client went away during its relay; the other request's
\* relay ran to its end and its client was sent the whole body.
C23_Witness ==
    /\ reqs # <<>>
    /\ variant = "p4_chat"
    /\ reqs[1].clientClosed = "relay"
    /\ reqs[1].pc = "done"
    /\ clientClosed = "no"
    /\ outcome = "eof"
    /\ res.ended
    /\ RawOf(res.out) = body
    /\ body # reqs[1].body


(***************************************************************************)
(* C24.  A request whose Origin header is not in the allow-list is         *)
(* rejected by the cross-origin check, whatever ALLOWED_ORIGINS holds,     *)
(* the empty and the unset configuration included.                         *)
(***************************************************************************)
C24_UnlistedOriginRejected ==
    (/\ cors.verdict # "none"
     /\ cors.origin.present
     /\ ~Includes(allowedOrigins(cors.env), cors.origin.text))
        => cors.verdict = "rejected"


(***************************************************************************)
(* C25.  /api/chat-stream sends the provider the composed prompt, as       *)
(* /api/chat does: the text of an uploaded file is part of the request.    *)
(***************************************************************************)
C25_StreamSendsComposedPrompt ==
    (variant \in ReframeVariants /\ sent # NoRequest)
        => /\ sent.prompt = fullPrompt
           /\ sent.prompt = Compose(variant, prompt.text, fileContent)


(***************************************************************************)
(* C26.  The pass-through relays write what they receive: at every moment  *)
(* the bytes written to the client are a prefix of the bytes received from *)
(* upstream, chunk for chunk and unchanged, and they are all of them when  *)
(* the upstream body ends normally with the client still connected.        *)
(***************************************************************************)
PassThroughVariants == {"p4_chat", "p5_chat"}

Received == SubSeq(body, 1, pos)

ForwardedDeltas(out) == SelectSeq(out, LAMBDA e : e.t = "content")

C27_DoneIsTerminal ==
    [][doneSeen => ForwardedDeltas(res'.out) = ForwardedDeltas(res.out)]_vars


(***************************************************************************)
(* C28.  The model field of a successful /api/chat reply is the model name *)
(* that was sent to the provider.                                          *)
(***************************************************************************)
C28_ReplyModelIsSentModel ==
    (variant \in ChatVariants /\ reply.sent) => reply.model = sent.model


(***************************************************************************)
(* C29.  Under fair scheduling the re-framed relay ends the response of a  *)
(* request whose upstream emits [DONE], closes or fails; once [DONE] has   *)
(* been read the response is ended without a further upstream read,        *)
(* whether or not the upstream ever closes.                                *)
(***************************************************************************)
C29_RelayEndsResponse ==
    (doneSeen \/ upstream \in {"ended", "errored"}) ~> res.ended


(***************************************************************************)
(* C30.  part_004: when the client disconnects at any point after the      *)
(* request was accepted, the await of the file's text and of the fetch     *)
(* included, the upstream body is destroyed once it exists and no chunk is *)
(* written to the response after the disconnect.                           *)
(***************************************************************************)
DisconnectedP4 == variant = "p4_chat" /\ clientClosed # "no"

UpstreamDestroyedOnDisconnect ==
    (DisconnectedP4 /\ upstream # "idle") => upstream = "destroyed"

NoWriteAfterDisconnect == DisconnectedP4 => res'.out = res.out

C30_DisconnectStopsRelay ==
    []UpstreamDestroyedOnDisconnect /\ [][NoWriteAfterDisconnect]_vars

===========================================================================
